---- MODULE Spec2Model ----
(***************************************************************************)
(* LocalTimelineRandomizerBase (Source/Readers/ReaderLib): the windowed,   *)
(* resumable sequence enumerator between a chunked deserializer and the    *)
(* minibatch consumer.  The model follows LocalTimelineRandomizerBase.cpp: *)
(* StartEpoch, MoveToNextSequence, GetNextSequenceDescriptions,            *)
(* GetNextSequences (selection, chunk cache, materialization), GetState    *)
(* and SetState.  What the .cpp only uses (IsEndReached, IsEndOfSweep, the *)
(* refill policy of the subclass, ExceptionCapture, the deserializer) is   *)
(* modelled from the design document.                                      *)
(***************************************************************************)
EXTENDS Integers, Sequences, FiniteSets, TLC

(* ------------------------------ bounds -------------------------------- *)
\* Number of records the deserializer exposes in one sweep.
NumRecords == 2
\* Largest numberOfSamples of one record.
MaxSamples == 2
\* Largest sample budget a caller passes to GetNextSequences.
MaxBudget == 3
\* Number of descriptors the refill policy emits per refill.
WindowLen == 2
\* Largest sweep limit and largest global sample limit given to StartEpoch.
MaxSweeps == 2
MaxEpochSamples == 3
\* Largest number of distributed workers.
MaxWorkers == 2
\* Number of streams (fields per record).
NumStreams == 2
\* Records per chunk of the deserializer.
ChunkSize == 1
\* Largest global sample limit and worker count of the per-worker limit check.
MaxGlobalSamples == 40
MaxLimitWorkers == 4
\* Machine widths, scaled down: size_t has SizeBits bits and int has IntBits
\* bits (64 and 32 in the build), so that a size_t value can exceed INT_MAX.
SizeBits == 8
IntBits == 4

(* --------------------------- machine integers -------------------------- *)
SizeMod == 2 ^ SizeBits
IntMod == 2 ^ IntBits
\* std::numeric_limits<size_t>::max()
SizeMax == SizeMod - 1
\* std::numeric_limits<int>::max()
IntMax == (IntMod \div 2) - 1
\* (int)x of a size_t x: the low IntBits bits, read as two's complement.
ToInt(x) ==
    LET low == x % IntMod
    IN  IF low > IntMax THEN low - IntMod ELSE low
\* An int converted to size_t by the usual arithmetic conversions.
ToSize(i) == i % SizeMod

\* Reader constants: "no limit" for sweeps and for samples.
g_infinity == SizeMax
requestDataSize == SizeMax

(* ------------------------- sequence descriptions ----------------------- *)
\* The reserved descriptor that marks the end of a sweep.
s_endOfSweep ==
    [m_indexInChunk |-> SizeMax, m_numberOfSamples |-> SizeMax, m_chunkId |-> SizeMax]

IsEndOfSweep(sequence) ==
    /\ sequence.m_indexInChunk = s_endOfSweep.m_indexInChunk
    /\ sequence.m_chunkId = s_endOfSweep.m_chunkId
    /\ sequence.m_numberOfSamples = s_endOfSweep.m_numberOfSamples

RecordIds == 0 .. (NumRecords - 1)
StreamIds == 0 .. (NumStreams - 1)
SampleCounts == 1 .. MaxSamples
ChunkOf(id) == id \div ChunkSize
AllChunks == {ChunkOf(id) : id \in RecordIds}

\* The descriptor the deserializer publishes for record id, of the given size.
Description(id, sz) ==
    [m_indexInChunk |-> id % ChunkSize, m_numberOfSamples |-> sz[id], m_chunkId |-> ChunkOf(id)]

\* Chunk::GetSequence: field j of the record at indexInChunk of chunk c.
FieldOf(c, indexInChunk, j) == <<c, indexInChunk, j>>

RECURSIVE SumSamples(_)
SumSamples(s) ==
    IF s = <<>> THEN 0 ELSE Head(s).m_numberOfSamples + SumSamples(Tail(s))

ChunkIds(s) == {s[i].m_chunkId : i \in 1 .. Len(s)}

VARIABLES
    sizes,                               \* deserializer: numberOfSamples of each record
    faulty,                              \* deserializer: records whose GetSequence raises
    innerPos,                            \* refill policy: private resume point
    m_multithreadedGetNextSequences,
    m_config,
    m_sweepIndex,
    m_numberOfSamplesSeenSoFar,
    m_currentSequencePositionInWindow,
    m_sequenceWindow,
    m_currentState,
    m_sequenceBuffer,
    m_chunks,
    result,                              \* the Sequences value of the call in progress / last returned
    pc,                                  \* "constructed", "idle", "processing"
    mat,                                 \* frame of the materialization loop
    saved,                               \* a snapshot the caller keeps from GetState
    call,                                \* what the last public call was and observed
    lim,                                 \* frame of the per-worker limit computation
    requested                            \* the configuration the epoch was started with, as passed

vars ==
    <<sizes, faulty, innerPos, m_multithreadedGetNextSequences, m_config, m_sweepIndex,
      m_numberOfSamplesSeenSoFar, m_currentSequencePositionInWindow, m_sequenceWindow,
      m_currentState, m_sequenceBuffer, m_chunks, result, pc, mat, saved, call, lim,
      requested>>

(* ------------------------------ dictionaries --------------------------- *)
EmptyDictionary == [k \in {} |-> 0]
Put(d, k, v) == [x \in (DOMAIN d) \cup {k} |-> IF x = k THEN v ELSE d[x]]

(* ------------------------- the object as a record ---------------------- *)
\* The members of the randomizer (and of its refill policy) as one value, with
\* the locals of the selection loop: samplesLoaded, atLeastOneSequenceNeeded,
\* the result flags, whether the loop left by break, the entries the loop
\* looked at, and whether the assertion of MoveToNextSequence was false.
Self ==
    [config |-> m_config,
     sweepIndex |-> m_sweepIndex,
     samplesSeen |-> m_numberOfSamplesSeenSoFar,
     pos |-> m_currentSequencePositionInWindow,
     window |-> m_sequenceWindow,
     currentState |-> m_currentState,
     buffer |-> m_sequenceBuffer,
     innerPos |-> innerPos,
     samplesLoaded |-> 0,
     atLeastOneSequenceNeeded |-> TRUE,
     endOfSweep |-> FALSE,
     endOfEpoch |-> FALSE,
     broke |-> FALSE,
     visited |-> <<>>,
     assertFailed |-> FALSE]

(* ----------------------------- refill policy --------------------------- *)
\* The stream the policy walks: the records of a sweep in deserializer order,
\* then the end-of-sweep sentinel, then the next sweep.
StreamLen == NumRecords + 1
StreamItem(k) == IF k < NumRecords THEN Description(k, sizes) ELSE s_endOfSweep

\* RefillSequenceWindow of the policy: records its resume point in the captured
\* state, appends the next WindowLen descriptors and moves its resume point.
RefillSequenceWindow(t) ==
    [t EXCEPT
        !.currentState = Put(@, "inner", t.innerPos),
        !.window = @ \o [i \in 1 .. WindowLen |-> StreamItem((t.innerPos + i - 1) % StreamLen)],
        !.innerPos = (@ + WindowLen) % StreamLen]

\* SetInnerState of the policy: resume from the snapshot's resume point.
SetInnerState(t, state) == [t EXCEPT !.innerPos = state["inner"]]

(* ------------------------------ the tracker ---------------------------- *)
IsEndReached(t) ==
    IF t.config.m_totalEpochSizeInSweeps # g_infinity
    THEN t.sweepIndex >= t.config.m_totalEpochSizeInSweeps
    ELSE t.samplesSeen >= t.config.m_totalEpochSizeInSamples

\* Fault injection for C4: SetState that leaves the policy where it is.
SetStateWithoutInnerState(t, state) ==
    LET a == [t EXCEPT !.sweepIndex = state["sweepIndex"],
                       !.samplesSeen = state["numberOfSamplesSeenSoFar"],
                       !.pos = state["currentSequencePositionInWindow"]]
    IN  RefillSequenceWindow([a EXCEPT !.window = <<>>])

\* Fault injection for C5: SetState that forgets numberOfSamplesSeenSoFar.
SetStateWithoutSamples(t, state) ==
    LET a == [t EXCEPT !.sweepIndex = state["sweepIndex"],
                       !.pos = state["currentSequencePositionInWindow"]]
        b == SetInnerState(a, state)
    IN  RefillSequenceWindow([b EXCEPT !.window = <<>>])

\* GetState: writes the three counters into m_currentState; the value returned
\* is the m_currentState of the record returned here.
GetState(t) ==
    [t EXCEPT !.currentState =
        Put(Put(Put(@, "sweepIndex", t.sweepIndex),
                "currentSequencePositionInWindow", t.pos),
            "numberOfSamplesSeenSoFar", t.samplesSeen)]

SetState(t, state) ==
    LET a == [t EXCEPT !.sweepIndex = state["sweepIndex"],
                       !.samplesSeen = state["numberOfSamplesSeenSoFar"],
                       !.pos = state["currentSequencePositionInWindow"]]
        b == SetInnerState(a, state)
        c == [b EXCEPT !.window = <<>>]
    IN  RefillSequenceWindow(c)

\* The per-worker sample limit StartEpoch derives from a global limit.
ShouldAddOneSample(samples, workers, rank) ==
    IF ToSize(ToInt(samples)) % workers > rank THEN 1 ELSE 0
LocalSampleLimit(samples, workers, rank) ==
    ((samples \div workers) + ShouldAddOneSample(samples, workers, rank)) % SizeMod

\* Fault injection for C11: the configuration is stored before the epoch index
\* is looked at.
StartEpochRejectedAfterStore(t, config) == [t EXCEPT !.config = config]

\* StartEpoch for a configuration with m_epochIndex # 0: RuntimeError is raised
\* by the first statement, before any member is assigned.
StartEpochRejected(t, config) == t

\* Fault injection for C12: no default of one sweep when neither limit is given.
StartEpochBodyWithoutDefault(t, config) ==
    LET a == [t EXCEPT !.config = config]
        c == IF config.m_totalEpochSizeInSweeps = g_infinity
             THEN [a EXCEPT !.config.m_totalEpochSizeInSamples =
                      LocalSampleLimit(a.config.m_totalEpochSizeInSamples,
                                       a.config.m_numberOfWorkers, a.config.m_workerRank)]
             ELSE a
    IN  RefillSequenceWindow(GetState(c))

\* StartEpoch for an accepted configuration (m_epochIndex = 0).
StartEpochBody(t, config) ==
    LET a == [t EXCEPT !.config = config]
        b == IF config.m_totalEpochSizeInSweeps = g_infinity
                /\ a.config.m_totalEpochSizeInSamples = requestDataSize
             THEN [a EXCEPT !.config.m_totalEpochSizeInSweeps = 1]
             ELSE a
        c == IF config.m_totalEpochSizeInSweeps = g_infinity
             THEN [b EXCEPT !.config.m_totalEpochSizeInSamples =
                      LocalSampleLimit(b.config.m_totalEpochSizeInSamples,
                                       b.config.m_numberOfWorkers, b.config.m_workerRank)]
             ELSE b
    IN  RefillSequenceWindow(GetState(c))

\* Fault injection for C15: the cursor is moved forward whatever the window holds.
MoveToNextSequenceWithoutRefill(t) == [t EXCEPT !.pos = @ + 1]

MoveToNextSequence(t) ==
    IF t.pos + 1 < Len(t.window)
    THEN [t EXCEPT !.pos = @ + 1]
    ELSE LET a == [t EXCEPT !.assertFailed = @ \/ (t.pos # Len(t.window)),
                            !.window = <<>>]
             b == RefillSequenceWindow(GetState(a))
         IN  [b EXCEPT !.pos = 0]

(* --------------------------- minibatch selector ------------------------ *)
\* Fault injection for C2: the test without the at-least-one-sequence guard.
ShouldBreakIgnoringFirst(atLeastOneSequenceNeeded, samplesLoaded, sequenceLength, maxSampleCount) ==
    samplesLoaded + sequenceLength > maxSampleCount

\* Fault injection for C3: the loop never ends a minibatch early.
ShouldBreakNever(atLeastOneSequenceNeeded, samplesLoaded, sequenceLength, maxSampleCount) ==
    FALSE

\* Fault injection for C19: every record ends the minibatch.
ShouldBreakAlways(atLeastOneSequenceNeeded, samplesLoaded, sequenceLength, maxSampleCount) ==
    TRUE

\* The test that ends a minibatch before a record that does not fit.
ShouldBreak(atLeastOneSequenceNeeded, samplesLoaded, sequenceLength, maxSampleCount) ==
    ~atLeastOneSequenceNeeded /\ samplesLoaded + sequenceLength > maxSampleCount

\* Fault injection for C7: the sentinel is also handed out as a record.
ConsumeEndOfSweepAsRecord(t) ==
    MoveToNextSequence([t EXCEPT !.sweepIndex = (@ + 1) % SizeMod, !.endOfSweep = TRUE,
                                 !.buffer = Append(@, s_endOfSweep)])

\* The branch of the loop that consumes an end-of-sweep sentinel.
ConsumeEndOfSweep(t) ==
    MoveToNextSequence([t EXCEPT !.sweepIndex = (@ + 1) % SizeMod, !.endOfSweep = TRUE])

\* Fault injection for C14: the record that ends the minibatch is stepped over.
ConsumeSequenceSkippingBreak(t, sequence, maxSampleCount) ==
    LET sequenceLength == sequence.m_numberOfSamples
        a == [t EXCEPT !.samplesSeen = (@ + sequenceLength) % SizeMod]
    IN  IF ShouldBreak(a.atLeastOneSequenceNeeded, a.samplesLoaded, sequenceLength, maxSampleCount)
        THEN MoveToNextSequence([a EXCEPT !.broke = TRUE])
        ELSE MoveToNextSequence(
                 [a EXCEPT !.buffer = Append(@, sequence),
                           !.samplesLoaded = @ + sequenceLength,
                           !.atLeastOneSequenceNeeded = FALSE])

\* The branch of the loop that looks at a real record.
ConsumeSequence(t, sequence, maxSampleCount) ==
    LET sequenceLength == sequence.m_numberOfSamples
        a == [t EXCEPT !.samplesSeen = (@ + sequenceLength) % SizeMod]
    IN  IF ShouldBreak(a.atLeastOneSequenceNeeded, a.samplesLoaded, sequenceLength, maxSampleCount)
        THEN [a EXCEPT !.broke = TRUE]
        ELSE MoveToNextSequence(
                 [a EXCEPT !.buffer = Append(@, sequence),
                           !.samplesLoaded = @ + sequenceLength,
                           !.atLeastOneSequenceNeeded = FALSE])

\* One iteration of the while loop of GetNextSequenceDescriptions.
LoopBody(t, maxSampleCount) ==
    LET sequence == t.window[t.pos + 1]
        a == [t EXCEPT !.visited = Append(@, sequence)]
    IN  IF IsEndOfSweep(sequence)
        THEN ConsumeEndOfSweep(a)
        ELSE ConsumeSequence(a, sequence, maxSampleCount)

\* The while loop: its state on entry is s; t names that state once computed.
RECURSIVE SelectionLoop(_, _)
SelectionLoop(s, maxSampleCount) ==
    CHOOSE out \in
        {IF ~t.broke /\ t.samplesLoaded < maxSampleCount /\ ~IsEndReached(t)
         THEN SelectionLoop(LoopBody(t, maxSampleCount), maxSampleCount)
         ELSE t : t \in {s}} : TRUE

GetNextSequenceDescriptions(t, maxSampleCount) ==
    LET a == SelectionLoop([t EXCEPT !.buffer = <<>>], maxSampleCount)
    IN  [a EXCEPT !.endOfEpoch = IsEndReached(a)]

\* What the next GetNextSequences call with budget b hands back, and the
\* members it leaves for the calls after it.
NextMinibatch(b) ==
    LET t == IF IsEndReached(Self)
             THEN [Self EXCEPT !.buffer = <<>>, !.endOfEpoch = TRUE]
             ELSE GetNextSequenceDescriptions(Self, b)
    IN  [records |-> t.buffer, endOfSweep |-> t.endOfSweep, endOfEpoch |-> t.endOfEpoch,
         after |-> <<t.config, t.sweepIndex, t.samplesSeen, t.pos, t.window, t.innerPos>>]

(* ------------------------ chunk cache, materializer -------------------- *)
\* The chunk ids GetChunk is asked for: referenced and not in the old cache.
ChunksToFetch(buffer, old) == ChunkIds(buffer) \ old

\* Fault injection for C10: the new chunks are merged into the old cache.
CollectChunksMerged(buffer, old) == old \cup ChunkIds(buffer)

\* Fault injection for C18: a fetched chunk is not put into the new map.
CollectChunksWithoutFetched(buffer, old) == ChunkIds(buffer) \cap old

\* The cache after the swap: the chunks found in the old cache and those fetched.
CollectChunks(buffer, old) == (ChunkIds(buffer) \cap old) \cup ChunksToFetch(buffer, old)

\* The loop that collects the chunks, from descriptor i on: an id already in
\* the new map is passed over, an id in the old cache is copied, any other id
\* is asked of GetChunk.  chunks: the keys of the new map; calls: the ids
\* GetChunk was called with, in order.
RECURSIVE CollectLoop(_, _, _, _)
CollectLoop(buffer, old, i, acc) ==
    IF i > Len(buffer) THEN acc
    ELSE LET id == buffer[i].m_chunkId
         IN  IF id \in acc.chunks
             THEN CollectLoop(buffer, old, i + 1, acc)
             ELSE IF id \in old
             THEN CollectLoop(buffer, old, i + 1, [acc EXCEPT !.chunks = @ \cup {id}])
             ELSE CollectLoop(buffer, old, i + 1,
                              [acc EXCEPT !.chunks = @ \cup {id}, !.calls = Append(@, id)])

\* Fault injection for C17: the old cache is not consulted.
GetChunkCallsIgnoringCache(buffer, old) ==
    CollectLoop(buffer, {}, 1, [chunks |-> {}, calls |-> <<>>]).calls

\* The GetChunk calls of one GetNextSequences call.
GetChunkCalls(buffer, old) ==
    CollectLoop(buffer, old, 1, [chunks |-> {}, calls |-> <<>>]).calls

Null == <<>>
\* result.m_data.resize(streams, vector(size)): every slot empty.
ResizedData(n) == [j \in StreamIds |-> [i \in 1 .. n |-> Null]]

\* The record a descriptor names, and whether the process lambda raises for
\* record i: its chunk is not in the cache, or GetSequence fails on it.
RecordOf(sequence) == sequence.m_chunkId * ChunkSize + sequence.m_indexInChunk
ProcessFaults(buffer, chunks, i) ==
    buffer[i].m_chunkId \notin chunks \/ RecordOf(buffer[i]) \in faulty

\* The process lambda for record i when it does not raise: the fields of the
\* record go to slot [j][i] of every stream j.
Process(data, buffer, i) ==
    [j \in StreamIds |->
        [data[j] EXCEPT ![i] = FieldOf(buffer[i].m_chunkId, buffer[i].m_indexInChunk, j)]]

\* ExceptionCapture: the single slot keeps the first fault stored.
Capture(slot, i) == IF slot = 0 THEN i ELSE slot

\* The sequential loop from index i on: process(i) in order; a fault leaves the
\* loop at once.  thrown is the index that raised (0: none).
RECURSIVE SequentialLoop(_, _, _, _)
SequentialLoop(r, buffer, chunks, i) ==
    IF i > Len(buffer) THEN r
    ELSE IF ProcessFaults(buffer, chunks, i)
    THEN [r EXCEPT !.thrown = i, !.faulted = @ \cup {i}, !.done = @ \cup {i}]
    ELSE SequentialLoop([r EXCEPT !.data = Process(@, buffer, i), !.done = @ \cup {i}],
                        buffer, chunks, i + 1)

\* Fault injection for C8: a task stores its fields in the next free slot, in
\* the order the tasks happen to run.
ParallelIterationInCompletionOrder(r, buffer, chunks, i) ==
    LET run == [r EXCEPT !.done = @ \cup {i},
                         !.reordered = @ \/ (\E k \in r.done : k > i)]
        slot == Cardinality(r.done) + 1
    IN  IF ProcessFaults(buffer, chunks, i)
        THEN [run EXCEPT !.faulted = @ \cup {i}, !.capture = Capture(@, i)]
        ELSE [run EXCEPT !.data = [j \in StreamIds |->
                 [@[j] EXCEPT ![slot] = FieldOf(buffer[i].m_chunkId, buffer[i].m_indexInChunk, j)]]]

\* Fault injection for C9: process(i) is run outside SafeRun, so a fault leaves
\* the loop while other tasks are still to run.
ParallelIterationUnguarded(r, buffer, chunks, i) ==
    LET run == [r EXCEPT !.done = @ \cup {i},
                         !.reordered = @ \/ (\E k \in r.done : k > i)]
    IN  IF ProcessFaults(buffer, chunks, i)
        THEN [run EXCEPT !.faulted = @ \cup {i}, !.thrown = i]
        ELSE [run EXCEPT !.data = Process(@, buffer, i)]

\* One iteration of the parallel loop: capture.SafeRun(process, i); a fault is
\* stored in the capture and the iteration ends normally.
ParallelIteration(r, buffer, chunks, i) ==
    LET run == [r EXCEPT !.done = @ \cup {i},
                         !.reordered = @ \/ (\E k \in r.done : k > i)]
    IN  IF ProcessFaults(buffer, chunks, i)
        THEN [run EXCEPT !.faulted = @ \cup {i}, !.capture = Capture(@, i)]
        ELSE [run EXCEPT !.data = Process(@, buffer, i)]

\* The frame of a materialization loop over n records.
Frame(n) ==
    [n |-> n, data |-> ResizedData(n), done |-> {}, reordered |-> FALSE, faulted |-> {},
     capture |-> 0, thrown |-> 0]
NoFrame == [n |-> 0]

(* ------------------------------- inputs -------------------------------- *)
\* Sample budgets a caller passes: zero, ordinary ones and one beyond INT_MAX.
Budgets == (0 .. MaxBudget) \cup {IntMax + 1}

EpochConfiguration(epochIndex, samples, sweeps, workers, rank) ==
    [m_epochIndex |-> epochIndex,
     m_totalEpochSizeInSamples |-> samples,
     m_totalEpochSizeInSweeps |-> sweeps,
     m_numberOfWorkers |-> workers,
     m_workerRank |-> rank]

\* The configurations a caller starts an epoch with: a sweep limit, a global
\* sample limit shared by the workers, no limit at all, or a later epoch.
Configs ==
    {EpochConfiguration(0, requestDataSize, sw, 1, 0) : sw \in 1 .. MaxSweeps}
    \cup {EpochConfiguration(0, g, g_infinity, w, r) :
            g \in (1 .. MaxEpochSamples) \cup {requestDataSize},
            w \in 1 .. MaxWorkers, r \in 0 .. (MaxWorkers - 1)}
    \cup {EpochConfiguration(1, requestDataSize, 1, 1, 0)}

ValidConfig(c) == c.m_workerRank < c.m_numberOfWorkers

(* ------------------------- what a call observed ------------------------ *)
\* op: the public operation; status: "ok", "running" or the error raised;
\* selected: the descriptors the call selected for its minibatch; visited:
\* the window entries the selection loop looked at; before*: the counters when
\* the call began; fetched: the chunk ids asked of GetChunk, in order; dispatched: the
\* samples of all records selected into minibatches since the epoch began;
\* done, faulted, rethrown, reordered: the tasks of the materialization loop
\* that ran, those that raised, the one whose fault reached the caller, and
\* whether some task ran before a task of lower index.  A SetState call also
\* notes whether the snapshot it was given had just been taken (fresh) and, if
\* so, the minibatch each budget would have produced without the restore.
Observed(op, status, sampleCount, t, fetched, dispatched) ==
    [op |-> op, status |-> status, sampleCount |-> sampleCount,
     selected |-> IF op = "GetNextSequences" /\ status = "running" THEN t.buffer ELSE <<>>,
     visited |-> t.visited, broke |-> t.broke, assertFailed |-> t.assertFailed,
     beforeSweepIndex |-> m_sweepIndex,
     beforeSamplesSeen |-> m_numberOfSamplesSeenSoFar,
     fetched |-> fetched,
     dispatched |-> dispatched,
     done |-> {}, faulted |-> {}, rethrown |-> 0, reordered |-> FALSE]

\* The call ends: with the fault of task r.thrown, or normally.
Finished(c, r, rethrown) ==
    [c EXCEPT !.status = IF rethrown # 0 THEN "raised" ELSE "ok",
              !.done = r.done, !.faulted = r.faulted, !.rethrown = rethrown,
              !.reordered = r.reordered]

Install(t) ==
    /\ m_config' = t.config
    /\ m_sweepIndex' = t.sweepIndex
    /\ m_numberOfSamplesSeenSoFar' = t.samplesSeen
    /\ m_currentSequencePositionInWindow' = t.pos
    /\ m_sequenceWindow' = t.window
    /\ m_currentState' = t.currentState
    /\ m_sequenceBuffer' = t.buffer
    /\ innerPos' = t.innerPos

Sequences(endOfSweep, endOfEpoch, data) ==
    [m_endOfSweep |-> endOfSweep, m_endOfEpoch |-> endOfEpoch, m_data |-> data]
NoData == [j \in {} |-> Null]
\* A call that raises hands no Sequences value to the caller.
NoResult == Sequences(FALSE, FALSE, NoData)
\* Fault injection for C13: the short-circuit result also reports a sweep end.
EndOfEpochResultWithSweep == Sequences(TRUE, TRUE, NoData)
\* The result of a call made after the end of the epoch: a default Sequences
\* with only m_endOfEpoch set.
EndOfEpochResult == Sequences(FALSE, TRUE, NoData)
NoLimits == [phase |-> "off"]
NoSnapshot == [state |-> EmptyDictionary, dispatched |-> 0]

Members ==
    <<m_config, m_sweepIndex, m_numberOfSamplesSeenSoFar, m_currentSequencePositionInWindow,
      m_sequenceWindow, m_currentState, m_sequenceBuffer, innerPos>>
Fixed == <<sizes, faulty, m_multithreadedGetNextSequences, lim>>

(* ------------------------------ construction --------------------------- *)
\* The constructor sets m_sweepIndex and m_numberOfSamplesSeenSoFar to zero and
\* leaves the window, the buffer, the captured state and the chunk cache empty.
\* It does not name m_currentSequencePositionInWindow: the cursor is taken to
\* start at zero, as the first read of the window in an epoch needs.
Constructed ==
    /\ innerPos = 0
    /\ m_config = EpochConfiguration(0, 0, 0, 1, 0)
    /\ m_sweepIndex = 0
    /\ m_numberOfSamplesSeenSoFar = 0
    /\ m_currentSequencePositionInWindow = 0
    /\ m_sequenceWindow = <<>>
    /\ m_currentState = EmptyDictionary
    /\ m_sequenceBuffer = <<>>
    /\ m_chunks = {}
    /\ result = NoResult
    /\ pc = "constructed"
    /\ mat = NoFrame
    /\ saved = NoSnapshot
    /\ requested = EpochConfiguration(0, 0, 0, 1, 0)
    /\ call = Observed("constructor", "ok", 0, Self, <<>>, 0)

\* A sequential reader over any data set whose records all load.
Init ==
    /\ sizes \in [RecordIds -> SampleCounts]
    /\ faulty = {}
    /\ m_multithreadedGetNextSequences = FALSE
    /\ Constructed
    /\ lim = NoLimits

\* A sequential or parallel reader over records of one sample each, some of
\* which fail to load.
InitParallel ==
    /\ sizes = [id \in RecordIds |-> 1]
    /\ faulty \in SUBSET RecordIds
    /\ m_multithreadedGetNextSequences \in BOOLEAN
    /\ Constructed
    /\ lim = NoLimits

\* A sequential reader over records of sizes 1, 2, ... in turn, all of which
\* load.
InitState ==
    /\ sizes = [id \in RecordIds |-> (id % MaxSamples) + 1]
    /\ faulty = {}
    /\ m_multithreadedGetNextSequences = FALSE
    /\ Constructed
    /\ lim = NoLimits

\* The workers of one distributed run, each about to start the epoch with the
\* same global sample limit.
InitLimits ==
    /\ sizes = [id \in RecordIds |-> 1]
    /\ faulty = {}
    /\ m_multithreadedGetNextSequences = FALSE
    /\ Constructed
    /\ \E g \in 0 .. MaxGlobalSamples, w \in 1 .. MaxLimitWorkers :
          lim = [phase |-> "ranks", samples |-> g, workers |-> w, locals |-> <<>>]

(* -------------------------------- actions ------------------------------ *)
\* StartEpoch between calls.  A configuration of a later epoch is rejected
\* whenever it is passed; an epoch is started once per randomizer.
StartEpoch ==
    /\ pc \in {"constructed", "idle"}
    /\ \E config \in Configs :
          /\ ValidConfig(config)
          /\ IF config.m_epochIndex # 0
             THEN /\ Install(StartEpochRejected(Self, config))
                  /\ call' = Observed("StartEpoch", "RuntimeError", 0, Self, <<>>, call.dispatched)
                  /\ UNCHANGED <<pc, requested>>
             ELSE /\ pc = "constructed"
                  /\ Install(StartEpochBody(Self, config))
                  /\ requested' = config
                  /\ call' = Observed("StartEpoch", "ok", 0, Self, <<>>, 0)
                  /\ pc' = "idle"
    /\ UNCHANGED <<Fixed, m_chunks, result, mat, saved>>

\* GetNextSequences up to the materialization loop, and in sequential mode to
\* its end; in parallel mode the tasks of the loop follow as ProcessParallel
\* steps and RethrowIfHappened ends the call.
GetNextSequences ==
    /\ pc = "idle"
    /\ \E sampleCount \in Budgets :
          IF sampleCount = 0
          THEN /\ call' = Observed("GetNextSequences", "LogicError", sampleCount, Self, <<>>,
                                   call.dispatched)
               /\ UNCHANGED <<Members, m_chunks, result, pc, mat>>
          ELSE IF IsEndReached(Self)
          THEN /\ result' = EndOfEpochResult
               /\ call' = Observed("GetNextSequences", "ok", sampleCount,
                                   [Self EXCEPT !.buffer = <<>>], <<>>, call.dispatched)
               /\ UNCHANGED <<Members, m_chunks, pc, mat>>
          ELSE IF sampleCount > IntMax
          THEN /\ call' = Observed("GetNextSequences", "RuntimeError", sampleCount, Self, <<>>,
                                   call.dispatched)
               /\ UNCHANGED <<Members, m_chunks, result, pc, mat>>
          ELSE \E t \in {GetNextSequenceDescriptions(Self, sampleCount)} :
               LET n == Len(t.buffer)
                   chunks == CollectChunks(t.buffer, m_chunks)
                   c == Observed("GetNextSequences", "running", sampleCount, t,
                                 GetChunkCalls(t.buffer, m_chunks),
                                 call.dispatched + SumSamples(t.buffer))
                   r == SequentialLoop(Frame(n), t.buffer, chunks, 1)
               IN  /\ Install(t)
                   /\ IF n = 0
                      THEN /\ result' = Sequences(t.endOfSweep, t.endOfEpoch, NoData)
                           /\ call' = [c EXCEPT !.status = "ok"]
                           /\ UNCHANGED <<m_chunks, pc, mat>>
                      ELSE IF m_multithreadedGetNextSequences
                      THEN /\ result' = Sequences(t.endOfSweep, t.endOfEpoch, ResizedData(n))
                           /\ m_chunks' = chunks
                           /\ call' = c
                           /\ mat' = Frame(n)
                           /\ pc' = "processing"
                      ELSE /\ result' = IF r.thrown # 0 THEN NoResult
                                        ELSE Sequences(t.endOfSweep, t.endOfEpoch, r.data)
                           /\ m_chunks' = chunks
                           /\ call' = Finished(c, r, r.thrown)
                           /\ UNCHANGED <<pc, mat>>
    /\ UNCHANGED <<Fixed, saved, requested>>

ProcessParallel ==
    /\ pc = "processing"
    /\ \E i \in (1 .. mat.n) \ mat.done :
          LET r == ParallelIteration(mat, m_sequenceBuffer, m_chunks, i)
          IN  IF r.thrown # 0
              THEN /\ result' = NoResult
                   /\ call' = Finished(call, r, r.thrown)
                   /\ mat' = NoFrame
                   /\ pc' = "idle"
              ELSE /\ result' = [result EXCEPT !.m_data = r.data]
                   /\ mat' = r
                   /\ UNCHANGED <<call, pc>>
    /\ UNCHANGED <<Members, Fixed, m_chunks, saved, requested>>

\* The end of the parallel region: RethrowIfHappened, then m_cleaner.Clean
\* (every sequence here is valid, so nothing is removed) and the return.
RethrowIfHappened ==
    /\ pc = "processing"
    /\ mat.done = 1 .. mat.n
    /\ result' = IF mat.capture # 0 THEN NoResult ELSE result
    /\ call' = Finished(call, mat, mat.capture)
    /\ mat' = NoFrame
    /\ pc' = "idle"
    /\ UNCHANGED <<Members, Fixed, m_chunks, saved, requested>>

GetStateCall ==
    /\ pc = "idle"
    /\ LET t == GetState(Self)
       IN  /\ Install(t)
           /\ saved' = [state |-> t.currentState, dispatched |-> call.dispatched]
           /\ call' = Observed("GetState", "ok", 0, Self, <<>>, call.dispatched)
    /\ UNCHANGED <<Fixed, m_chunks, result, pc, mat, requested>>

SetStateCall ==
    /\ pc = "idle"
    /\ saved # NoSnapshot
    /\ Install(SetState(Self, saved.state))
    /\ call' = Observed("SetState", "ok", 0, Self, <<>>, saved.dispatched)
                @@ [fresh |-> call.op = "GetState",
                    uninterrupted |-> IF call.op = "GetState"
                                      THEN [b \in 1 .. MaxBudget |-> NextMinibatch(b)]
                                      ELSE <<>>]
    /\ UNCHANGED <<Fixed, m_chunks, result, pc, mat, saved, requested>>

\* StartEpoch on the worker of the next rank, on its own randomizer: the
\* per-worker limit it stores is appended to lim.locals.
StartEpochOnWorker ==
    /\ lim.phase = "ranks"
    /\ LET rank == Len(lim.locals)
           t == StartEpochBody(Self, EpochConfiguration(0, lim.samples, g_infinity,
                                                        lim.workers, rank))
           locals == Append(lim.locals, t.config.m_totalEpochSizeInSamples)
       IN  lim' = [lim EXCEPT !.locals = locals,
                              !.phase = IF Len(locals) = lim.workers THEN "done" ELSE "ranks"]
    /\ UNCHANGED <<Members, sizes, faulty, m_multithreadedGetNextSequences, m_chunks, result,
                   pc, mat, saved, call, requested>>

Next ==
    \/ StartEpoch
    \/ GetNextSequences

NextParallel ==
    \/ StartEpoch
    \/ GetNextSequences
    \/ ProcessParallel
    \/ RethrowIfHappened

NextState ==
    \/ StartEpoch
    \/ GetNextSequences
    \/ GetStateCall
    \/ SetStateCall

\* Selection and the chunk cache, over every data set and configuration.
Spec == Init /\ [][Next]_vars
\* Materialization, sequential and parallel, with records that fail to load.
SpecParallel == InitParallel /\ [][NextParallel]_vars
\* Iteration interleaved with GetState and SetState.
SpecState == InitState /\ [][NextState]_vars
\* The per-worker limits of one global limit.
SpecLimits == InitLimits /\ [][StartEpochOnWorker]_vars
\* A caller that starts the epoch and keeps asking for minibatches with a
\* budget the randomizer accepts, over one data set.
SpecProgress ==
    /\ InitState
    /\ [][Next]_vars
    /\ WF_vars(StartEpoch /\ pc' = "idle")
    /\ WF_vars(GetNextSequences /\ call'.status = "ok")

(* =============================== claims ================================ *)
\* A GetNextSequences call that ran the selector has handed back its result.
Returned == call.op = "GetNextSequences" /\ call.status = "ok"
Sentinels(s) == Cardinality({i \in 1 .. Len(s) : IsEndOfSweep(s[i])})
RECURSIVE SumRealSamples(_)
SumRealSamples(s) ==
    IF s = <<>> THEN 0
    ELSE (IF IsEndOfSweep(Head(s)) THEN 0 ELSE Head(s).m_numberOfSamples)
         + SumRealSamples(Tail(s))

\* C1: between calls, m_numberOfSamplesSeenSoFar equals the sum of
\* numberOfSamples over the records selected into minibatches since the epoch
\* began; sentinels and records looked at but not selected contribute nothing.
C1_SamplesSeenIsDispatched ==
    pc = "idle" => m_numberOfSamplesSeenSoFar = call.dispatched

\* C2: a call with a non-zero budget returns zero records only with
\* endOfEpoch = true: if the end is not reached when the selection loop
\* finishes, at least one record was selected.
C2_EmptyOnlyAtEndOfEpoch ==
    (Returned /\ call.sampleCount # 0 /\ call.selected = <<>>) => result.m_endOfEpoch

\* C2 witness: a record larger than the whole budget is returned alone, before
\* the end of the epoch.
C2_Witness ==
    /\ Returned
    /\ Len(call.selected) = 1
    /\ call.selected[1].m_numberOfSamples > call.sampleCount
    /\ ~result.m_endOfEpoch

\* C3: the records one call selects have a total numberOfSamples within the
\* budget, or the minibatch is a single record; every selected descriptor is a
\* whole record of the deserializer.
C3_WithinBudgetOrSingle ==
    Returned =>
        /\ SumSamples(call.selected) <= call.sampleCount \/ Len(call.selected) = 1
        /\ \A i \in 1 .. Len(call.selected) :
              /\ RecordOf(call.selected[i]) \in RecordIds
              /\ call.selected[i] = Description(RecordOf(call.selected[i]), sizes)

\* C3 witness: a call filled its budget exactly with two or more records.
C3_Witness ==
    /\ Returned
    /\ Len(call.selected) >= 2
    /\ SumSamples(call.selected) = call.sampleCount

\* C7: a call that consumes end-of-sweep sentinels reports endOfSweep, raises
\* the sweep counter by one per sentinel, adds no samples for a sentinel and
\* returns no sentinel among its records.
C7_SentinelAccounting ==
    (Returned /\ Sentinels(call.visited) > 0) =>
        /\ result.m_endOfSweep
        /\ m_sweepIndex = call.beforeSweepIndex + Sentinels(call.visited)
        /\ m_numberOfSamplesSeenSoFar
              = call.beforeSamplesSeen + SumRealSamples(call.visited)
        /\ Sentinels(call.selected) = 0

\* C7 witness: the sentinel was consumed in the middle of a call, between two
\* records of the same minibatch.
C7_Witness ==
    /\ Returned
    /\ \E i \in 2 .. (Len(call.visited) - 1) : IsEndOfSweep(call.visited[i])
    /\ Len(call.selected) >= 2

\* C10 as stated: after every GetNextSequences call the chunk cache holds
\* exactly the chunks referenced by the minibatch that call produced.
C10_CacheIsThisCalls ==
    Returned => m_chunks = ChunkIds(call.selected)

\* C10 amended: a call that selects at least one record replaces the cache by
\* exactly the chunks its records reference; every other step, a call that
\* selects no record included, leaves the cache as it was.
C10_CacheReplacedWhenSelected ==
    [][IF pc = "idle" /\ call'.op = "GetNextSequences" /\ call'.selected # <<>>
       THEN m_chunks' = ChunkIds(call'.selected)
       ELSE m_chunks' = m_chunks]_vars

\* C10 witness: a minibatch that does not reference the chunk of the first
\* record, which an earlier minibatch had cached, left that chunk out.
C10_Witness ==
    /\ Returned
    /\ call.selected # <<>>
    /\ ChunkOf(0) \notin m_chunks
    /\ call.dispatched > SumSamples(call.selected)

\* C4: SetState(GetState()) between two calls changes nothing the iteration
\* depends on: for every budget the next minibatch (records and flags) and the
\* members left for the calls after it are the same as without the round trip.
C4_RoundTripKeepsIteration ==
    (call.op = "SetState" /\ call.fresh)
        => \A b \in 1 .. MaxBudget : NextMinibatch(b) = call.uninterrupted[b]

\* C4 witness: a snapshot was restored at the very point it was taken, in the
\* middle of a window and before the end of the epoch.
C4_Witness ==
    /\ call.op = "SetState"
    /\ call.fresh
    /\ m_currentSequencePositionInWindow > 0
    /\ ~IsEndReached(Self)

\* C5: GetState() right after SetState(s) returns s, in the three counters and
\* in the policy's entry, for any snapshot s taken earlier.
C5_RestoreThenSaveIsIdentity ==
    call.op = "SetState" => GetState(Self).currentState = saved.state

\* C5 witness: the snapshot restored had been taken earlier, in the middle of a
\* window after the first: the restore moved a counter back.
C5_Witness ==
    /\ call.op = "SetState"
    /\ ~call.fresh
    /\ \/ call.beforeSamplesSeen # m_numberOfSamplesSeenSoFar
       \/ call.beforeSweepIndex # m_sweepIndex
    /\ saved.state["inner"] # 0
    /\ saved.state["currentSequencePositionInWindow"] > 0

\* C6: the per-worker limits StartEpoch derives from a global limit add up to
\* the global limit, differ by at most one, and the larger ones go to the
\* lowest ranks.
C6_LocalLimitsSumToGlobal ==
    lim.phase = "done" =>
        /\ SumSamples([i \in 1 .. Len(lim.locals) |-> [m_numberOfSamples |-> lim.locals[i]]])
              = lim.samples
        /\ \A i, k \in 1 .. Len(lim.locals) :
              /\ lim.locals[i] - lim.locals[k] <= 1
              /\ i < k => lim.locals[i] >= lim.locals[k]

\* C8: a call that returns in parallel mode, whatever the order its tasks ran
\* in, returns the data the sequential loop builds for the same descriptors and
\* chunks; in both modes slot [j][i] holds field j of record i.
C8_ParallelEqualsSequential ==
    (Returned /\ call.selected # <<>>) =>
        /\ result.m_data = SequentialLoop(Frame(Len(call.selected)), call.selected, m_chunks, 1).data
        /\ \A j \in StreamIds : \A i \in 1 .. Len(call.selected) :
              result.m_data[j][i]
                 = FieldOf(call.selected[i].m_chunkId, call.selected[i].m_indexInChunk, j)

\* C8 witness: a parallel call of two or more records returned after a task ran
\* before a task of lower index.
C8_Witness ==
    /\ Returned
    /\ m_multithreadedGetNextSequences
    /\ Len(call.selected) >= 2
    /\ call.reordered

\* C9: in parallel mode every task of the call runs, whether or not a sibling
\* raised; the call raises exactly when some task raised, after all tasks ran,
\* and the fault it raises is one of those captured.
C9_FaultsAggregated ==
    (m_multithreadedGetNextSequences /\ pc = "idle" /\ call.op = "GetNextSequences"
        /\ call.selected # <<>>) =>
        LET bad == {i \in 1 .. Len(call.selected) : RecordOf(call.selected[i]) \in faulty}
        IN  /\ call.done = 1 .. Len(call.selected)
            /\ call.faulted = bad
            /\ call.status = IF bad = {} THEN "ok" ELSE "raised"
            /\ bad # {} => call.rethrown \in bad

\* C9 witness: two tasks raised, the fault that reached the caller is not that
\* of the lowest index, and a task that did not raise ran as well.
C9_Witness ==
    /\ m_multithreadedGetNextSequences
    /\ call.status = "raised"
    /\ Cardinality(call.faulted) >= 2
    /\ \E k \in call.faulted : k < call.rethrown
    /\ call.done # call.faulted

\* C11: StartEpoch with an epoch index other than 0 raises RuntimeError and
\* changes nothing: the stored configuration, the window, the cursor, the
\* counters, the captured state and the chunk cache are as before the call.
C11_RejectedStartEpochChangesNothing ==
    [][(call'.op = "StartEpoch" /\ call'.status = "RuntimeError")
          => UNCHANGED <<Members, m_chunks, result, pc>>]_vars

\* C11 witness: a configuration of a later epoch was rejected in the middle of
\* an epoch, with the cursor inside a window and samples already counted.
C11_Witness ==
    /\ call.op = "StartEpoch"
    /\ call.status = "RuntimeError"
    /\ m_currentSequencePositionInWindow > 0
    /\ m_numberOfSamplesSeenSoFar > 0
    /\ m_config.m_epochIndex = 0
    /\ m_config # EpochConfiguration(0, 0, 0, 1, 0)

\* The epoch in progress was started with neither a sweep nor a sample limit.
Unlimited ==
    /\ pc # "constructed"
    /\ requested.m_totalEpochSizeInSweeps = g_infinity
    /\ requested.m_totalEpochSizeInSamples = requestDataSize

\* C12: an epoch started with an unbounded number of sweeps and an unbounded
\* sample count is exactly one sweep, for any number of workers: the limit
\* stored is one sweep, a call reports endOfEpoch exactly when the first
\* sentinel has been consumed by it (or, short-circuiting, by a call before
\* it), and no second sentinel is ever consumed.
C12_UnlimitedIsOneSweep ==
    Unlimited =>
        /\ m_config.m_totalEpochSizeInSweeps = 1
        /\ m_sweepIndex <= 1
        /\ (Returned /\ call.sampleCount # 0) =>
              /\ result.m_endOfEpoch <=> (m_sweepIndex = 1)
              /\ (result.m_endOfEpoch /\ call.beforeSweepIndex = 0)
                    => /\ Sentinels(call.visited) = 1
                       /\ IsEndOfSweep(call.visited[Len(call.visited)])

\* C12 witness: on the second of two workers, after a call that returned
\* records without endOfEpoch, a call consumed the sentinel and reported
\* endOfEpoch together with the last record of the sweep.
C12_Witness ==
    /\ Unlimited
    /\ requested.m_numberOfWorkers = 2
    /\ requested.m_workerRank = 1
    /\ Returned
    /\ result.m_endOfEpoch
    /\ Sentinels(call.visited) = 1
    /\ call.selected # <<>>
    /\ call.dispatched > SumSamples(call.selected)

\* C13: a GetNextSequences call with a non-zero budget made when the end of
\* the epoch is reached returns no record, endOfEpoch = true and endOfSweep =
\* false, and leaves the cursor, the window, the sweep counter, the samples
\* counter and the chunk cache unchanged.
C13_ShortCircuitAfterEnd ==
    [][(pc = "idle" /\ IsEndReached(Self) /\ call'.op = "GetNextSequences"
           /\ call'.sampleCount # 0)
          => /\ call'.status = "ok"
             /\ call'.selected = <<>>
             /\ call'.visited = <<>>
             /\ result'.m_data = NoData
             /\ result'.m_endOfEpoch
             /\ ~result'.m_endOfSweep
             /\ UNCHANGED <<m_currentSequencePositionInWindow, m_sequenceWindow, m_sweepIndex,
                            m_numberOfSamplesSeenSoFar, m_chunks, m_config, innerPos, pc>>]_vars

\* C13 witness: a call short-circuited after a call that had ended the epoch
\* with a sweep end and cached chunks; the cache and the cursor are still
\* those of the earlier call.
C13_Witness ==
    /\ Returned
    /\ call.sampleCount # 0
    /\ call.visited = <<>>
    /\ IsEndReached(Self)
    /\ result = EndOfEpochResult
    /\ m_chunks # {}
    /\ m_sequenceBuffer # <<>>
    /\ m_sweepIndex > 0

\* The policy's stream with the sentinels removed: its k-th record, from 0.
RecordStreamItem(k) == Description(k % NumRecords, sizes)
\* The number of records, from the k-th on, whose samples add up to d; -1 if
\* no run of whole records does.
RECURSIVE RecordsFor(_, _)
RecordsFor(k, d) ==
    IF d = 0 THEN k
    ELSE IF RecordStreamItem(k).m_numberOfSamples > d THEN -1
    ELSE RecordsFor(k + 1, d - RecordStreamItem(k).m_numberOfSamples)

\* C14: the records returned since the epoch began are the policy's stream
\* without its sentinels, in order, none left out and none twice: each call
\* returns the records that follow those returned before it; the entry under
\* the cursor between calls is the next record not yet returned, or the
\* sentinel that precedes it; a record that ended a minibatch by not fitting
\* is that next record.
C14_WalkInOrder ==
    (pc = "idle" /\ call.status = "ok" /\ call.op \in {"StartEpoch", "GetNextSequences"}) =>
        LET n == Len(call.selected)
            first == RecordsFor(0, call.dispatched - SumSamples(call.selected))
            cursor == m_sequenceWindow[m_currentSequencePositionInWindow + 1]
        IN  /\ first >= 0
            /\ \A i \in 1 .. n : call.selected[i] = RecordStreamItem(first + i - 1)
            /\ IF IsEndOfSweep(cursor)
               THEN /\ (first + n) % NumRecords = 0
                    /\ m_sweepIndex = ((first + n) \div NumRecords) - 1
               ELSE /\ cursor = RecordStreamItem(first + n)
                    /\ m_sweepIndex = (first + n) \div NumRecords
            /\ call.broke => /\ call.visited[Len(call.visited)] = RecordStreamItem(first + n)
                             /\ cursor = RecordStreamItem(first + n)

\* C14 witness: the call before this one had looked at a record and left it
\* (the samples counter already included it when this call began); this call
\* returned that record first, went on past the sentinel, and was itself ended
\* by a record that did not fit.
C14_Witness ==
    /\ Returned
    /\ Len(call.selected) >= 1
    /\ call.dispatched > SumSamples(call.selected)
    /\ call.beforeSamplesSeen
          = call.dispatched - SumSamples(call.selected) + call.selected[1].m_numberOfSamples
    /\ call.selected[1] = Description(NumRecords - 1, sizes)
    /\ Sentinels(call.visited) = 1
    /\ call.broke

\* Every read of the window by the selection loop started from t with the
\* given budget finds an entry under the cursor.
RECURSIVE ReadsInsideWindow(_, _)
ReadsInsideWindow(t, maxSampleCount) ==
    IF ~t.broke /\ t.samplesLoaded < maxSampleCount /\ ~IsEndReached(t)
    THEN /\ t.window # <<>>
         /\ t.pos < Len(t.window)
         /\ ReadsInsideWindow(LoopBody(t, maxSampleCount), maxSampleCount)
    ELSE TRUE

C16_AssertionHolds ==
    call.op = "GetNextSequences" => ~call.assertFailed

\* C17: in a GetNextSequences call GetChunk is called only with chunk ids that
\* the selected records reference and the cache left by the previous call does
\* not hold, and at most once with each id; the referenced chunks that the
\* previous cache holds are in the new cache without a GetChunk call.
C17_FetchOnlyMissingOnce ==
    [][(pc = "idle" /\ call'.op = "GetNextSequences") =>
          LET calls == call'.fetched
              referenced == ChunkIds(call'.selected)
          IN  /\ \A i \in 1 .. Len(calls) : calls[i] \in referenced \ m_chunks
              /\ \A i, k \in 1 .. Len(calls) : i # k => calls[i] # calls[k]
              /\ call'.selected # <<>> =>
                    /\ referenced \cap m_chunks \subseteq m_chunks'
                    /\ referenced \ m_chunks = {calls[i] : i \in 1 .. Len(calls)}]_vars

\* C17 witness: a minibatch of three records over two chunks: the chunk of its
\* first and third record was fetched, once, and the other chunk was taken
\* from the cache the call before had left.
C17_Witness ==
    /\ Returned
    /\ Len(call.selected) = 3
    /\ call.selected[1].m_chunkId = call.selected[3].m_chunkId
    /\ call.fetched = <<call.selected[1].m_chunkId>>
    /\ m_chunks = {call.selected[1].m_chunkId, call.selected[2].m_chunkId}
    /\ call.selected[1].m_chunkId # call.selected[2].m_chunkId

\* C18: in every call that selects records, sequential or parallel, the chunk
\* of every selected record is in the cache the materialization loop looks it
\* up in, so "Invalid chunk requested" is never raised: a task raises only
\* because the deserializer fails on its record.
C18_NoInvalidChunk ==
    (call.op = "GetNextSequences" /\ call.selected # <<>>) =>
        \A i \in 1 .. Len(call.selected) :
            /\ call.selected[i].m_chunkId \in m_chunks
            /\ i \in call.faulted => RecordOf(call.selected[i]) \in faulty

\* C18 witness: a parallel call of two records returned, one chunk fetched by
\* it and the other carried over from the call before, after every task had
\* looked up its chunk.
C18_Witness ==
    /\ Returned
    /\ m_multithreadedGetNextSequences
    /\ Len(call.selected) = 2
    /\ call.done = {1, 2}
    /\ Len(call.fetched) = 1
    /\ Cardinality(m_chunks) = 2

\* The end of the epoch was already reached when the last call began.
EndReachedBefore ==
    IsEndReached([Self EXCEPT !.sweepIndex = call.beforeSweepIndex,
                              !.samplesSeen = call.beforeSamplesSeen])

\* C19: a call that returns and was made before the end of the epoch has
\* selected at least one record or consumed at least one sentinel; and under
\* every sweep or sample limit a caller that keeps calling is eventually
\* handed endOfEpoch = true.
C19_ForwardProgress ==
    /\ []((Returned /\ ~EndReachedBefore)
            => (call.selected # <<>> \/ Sentinels(call.visited) >= 1))
    /\ ((pc = "idle") ~> (Returned /\ result.m_endOfEpoch))

\* C19 witness: a call made before the end of the epoch returned no record:
\* all it did was consume the sentinel, which ended the epoch.
C19_Witness ==
    /\ Returned
    /\ ~EndReachedBefore
    /\ call.selected = <<>>
    /\ Sentinels(call.visited) = 1
    /\ result.m_endOfEpoch
    /\ call.dispatched > 0

\* C20: in an epoch with a sample limit and no sweep limit, a call reports
\* endOfEpoch only when the records returned since the epoch began total at
\* least the per-worker limit stored by StartEpoch.
C20_EndOnlyAfterLimit ==
    (/\ pc = "idle"
     /\ requested.m_totalEpochSizeInSweeps = g_infinity
     /\ requested.m_totalEpochSizeInSamples # requestDataSize
     /\ Returned
     /\ result.m_endOfEpoch)
        => call.dispatched >= m_config.m_totalEpochSizeInSamples
====
